---- MODULE Spec2Model ----
(***************************************************************************)
(* A model of the game-state engine of ReactXO (src/App.jsx): the App      *)
(* component's state (screen, boardSize, history, currentMove, scoreX,     *)
(* scoreO), its handlers (handleStart, handlePlay, jumpTo, restartGame),   *)
(* GameScreen's handleClick and status, and the pure functions             *)
(* calculateWinner and generateWinningLines.                               *)
(*                                                                         *)
(* JavaScript arrays are modelled as functions from their own keys to      *)
(* values: an array of length n with no holes is a function on 0..n-1, a   *)
(* write past the end or at a negative key adds that key, exactly as an    *)
(* assignment a[i] = v does in JavaScript.                                 *)
(***************************************************************************)
EXTENDS Integers, Sequences, FiniteSets, TLC

\* App's state, and last, the outcome of the latest handler call: "init",
\* "setBoardSize", "handleStart", "ignored" (handleClick returned early),
\* "played" (handlePlay appended at the end of history), "branched" (handlePlay
\* discarded later snapshots), "jumpTo", "restartGame"
VARIABLES screen, boardSize, history, currentMove, scoreX, scoreO, last

\* one call of calculateWinner on its own: its arguments and its result
VARIABLES evalSquares, evalN, evalResult

appVars == <<screen, boardSize, history, currentMove, scoreX, scoreO, last>>

evalVars == <<evalSquares, evalN, evalResult>>

vars == <<screen, boardSize, history, currentMove, scoreX, scoreO, last,
          evalSquares, evalN, evalResult>>

core == <<history, currentMove, scoreX, scoreO>>

(***************************************************************************)
(* Bounds of the exploration.                                              *)
(***************************************************************************)
\* a click that places a mark is explored only while currentMove is below
\* MaxMoves
MaxMoves == 9
\* a click that places a mark is explored only while scoreX + scoreO is below
\* MaxScore
MaxScore == 1
\* within a single game, a click that places a mark is explored only while
\* scoreX + scoreO is below MaxWins
MaxWins == 2
\* on the 3x3 grid a click that places a mark is explored only if the history
\* it leaves holds at most MaxDetours moves away from the principal line of play
MaxDetours == 2
\* the same on the 5x5 grid, whose 25 cells make every detour wider
MaxDetoursLarge == 1
\* a handler called directly is given a click only while currentMove is below
\* MaxDirect
MaxDirect == 3
\* the out-of-range index of the spec's scenario "jumpTo(10)"
FarIndex == 10

(***************************************************************************)
(* JavaScript values and arrays.                                           *)
(***************************************************************************)
Null == "null"

Undefined == "undefined"

Truthy(v) == v \notin {Null, Undefined}

\* the array indices of a: its non-negative keys
Indices(a) == {k \in DOMAIN a : k >= 0}

\* a.length
Length(a) ==
    LET idx == Indices(a)
        n == Cardinality(idx)
    IN  IF idx = 0..(n - 1) THEN n
        ELSE (CHOOSE m \in idx : \A k \in idx : k <= m) + 1

\* a[i]
Get(a, i) == IF i \in DOMAIN a THEN a[i] ELSE Undefined

\* Array(n).fill(v)
ArrayFill(n, v) == [k \in 0..(n - 1) |-> v]

\* a.slice(0, end) for end >= 0: the indices below end, holes kept,
\* non-index keys dropped
Slice(a, end) == [k \in {j \in Indices(a) : j < end} |-> a[k]]

\* a.slice(): a copy of the indexed elements
SliceAll(a) == Slice(a, Length(a))

\* a[i] = v on a copy of a
ArraySet(a, i, v) == [k \in DOMAIN a \cup {i} |-> IF k = i THEN v ELSE a[k]]

\* [...a, x] for an array a without holes
SpreadAppend(a, x) ==
    LET n == Length(a)
    IN  [k \in 0..n |-> IF k = n THEN x ELSE a[k]]

(***************************************************************************)
(* generateWinningLines(N): rows, columns, main diagonal, anti-diagonal.   *)
(* A line is the sequence of its cell indices in the order they are        *)
(* pushed.                                                                 *)
(***************************************************************************)
RowLines(N) == [r \in 1..N |-> [c \in 1..N |-> (r - 1) * N + (c - 1)]]

ColLines(N) == [c \in 1..N |-> [r \in 1..N |-> (r - 1) * N + (c - 1)]]

Diag1(N) == [i \in 1..N |-> (i - 1) * N + (i - 1)]

\* the anti-diagonal computed with N in place of N - 1
Diag2OffByOne(N) == [i \in 1..N |-> (i - 1) * N + (N - (i - 1))]

Diag2(N) == [i \in 1..N |-> (i - 1) * N + (N - 1 - (i - 1))]

\* generateWinningLines pushing the columns before the rows
generateWinningLinesColumnsFirst(N) ==
    ColLines(N) \o RowLines(N) \o <<Diag1(N)>> \o <<Diag2(N)>>

generateWinningLines(N) == RowLines(N) \o ColLines(N) \o <<Diag1(N)>> \o <<Diag2(N)>>

(***************************************************************************)
(* calculateWinner(squares, N): the first line, in the order of            *)
(* generateWinningLines, whose first cell is truthy and whose cells all    *)
(* equal it.  NoWinner stands for the null it returns otherwise.           *)
(***************************************************************************)
NoWinner == [player |-> Null, line |-> <<>>]

LineWins(squares, line) ==
    /\ Truthy(Get(squares, line[1]))
    /\ \A j \in 1..Len(line) : Get(squares, line[j]) = Get(squares, line[1])

RECURSIVE ScanLines(_, _, _)
ScanLines(squares, lines, k) ==
    IF k > Len(lines) THEN NoWinner
    ELSE IF LineWins(squares, lines[k])
         THEN [player |-> Get(squares, lines[k][1]), line |-> lines[k]]
         ELSE ScanLines(squares, lines, k + 1)

\* the lines of the two board sizes StartMenu offers, computed once
BoardSizes == {3, 5}

WinningLines == [N \in BoardSizes |-> generateWinningLines(N)]

calculateWinner(squares, N) == ScanLines(squares, WinningLines[N], 1)

(***************************************************************************)
(* App's derived values and GameScreen's status.                           *)
(***************************************************************************)
\* the turn derived from the length of history instead of currentMove
xIsNextFromLength == (Length(history) - 1) % 2 = 0

xIsNext == currentMove % 2 = 0

\* history[currentMove] is an array (not undefined)
HasCurrent == currentMove \in DOMAIN history

currentSquares == history[currentMove]

\* GameScreen is mounted and rendered without throwing: on the game screen
\* with squares defined (squares.every throws on undefined)
Rendered == screen = "game" /\ HasCurrent

winnerInfo == calculateWinner(currentSquares, boardSize)

\* squares.every(val => val !== null)
BoardFull(squares) == \A k \in Indices(squares) : squares[k] # Null

\* status testing for a full board before testing for a winner
StatusOfDrawFirst(squares, N, xNext) ==
    LET winner == calculateWinner(squares, N)
    IN  IF BoardFull(squares) THEN <<"Draw!">>
        ELSE IF winner # NoWinner THEN <<"Winner", winner.player>>
        ELSE <<"Next", IF xNext THEN "X" ELSE "O">>

\* GameScreen's status: `Winner: p`, `Draw!` or `Next: p`
StatusOf(squares, N, xNext) ==
    LET winner == calculateWinner(squares, N)
    IN  IF winner # NoWinner THEN <<"Winner", winner.player>>
        ELSE IF BoardFull(squares) THEN <<"Draw!">>
        ELSE <<"Next", IF xNext THEN "X" ELSE "O">>

status == StatusOf(currentSquares, boardSize, xIsNext)

(***************************************************************************)
(* Board renders one button per cell r*N+c, each calling onClick with its  *)
(* own index: the interface clicks any cell of 0..N*N-1.                   *)
(***************************************************************************)
Cells(N) == 0..(N * N - 1)

(***************************************************************************)
(* Handlers.                                                               *)
(***************************************************************************)
\* calculateWinner not called yet
Unevaluated == [player |-> Undefined, line |-> <<>>]

\* useState initial values
AppInit ==
    /\ screen = "menu"
    /\ boardSize = 3
    /\ history = ArrayFill(1, ArrayFill(3 * 3, Null))
    /\ currentMove = 0
    /\ scoreX = 0
    /\ scoreO = 0
    /\ last = "init"

Init ==
    /\ AppInit
    /\ evalSquares = ArrayFill(3 * 3, Null)
    /\ evalN = 3
    /\ evalResult = Unevaluated

\* StartMenu's radio buttons
SetBoardSize(n) ==
    /\ screen = "menu"
    /\ boardSize' = n
    /\ last' = "setBoardSize"
    /\ UNCHANGED <<screen, history, currentMove, scoreX, scoreO>>
    /\ UNCHANGED evalVars

handleStart ==
    /\ screen = "menu"
    /\ history' = ArrayFill(1, ArrayFill(boardSize * boardSize, Null))
    /\ currentMove' = 0
    /\ screen' = "game"
    /\ last' = "handleStart"
    /\ UNCHANGED <<boardSize, scoreX, scoreO>>
    /\ UNCHANGED evalVars

\* NextHistory slicing one snapshot short: the active board is discarded too
NextHistoryDroppingCurrent(h, move, nextSquares) == SpreadAppend(Slice(h, move), nextSquares)

\* NextHistory without the truncation: the new board inserted after the whole
\* of history
NextHistoryKeepingFuture(h, move, nextSquares) == SpreadAppend(h, nextSquares)

\* handlePlay's nextHistory
NextHistory(h, move, nextSquares) == SpreadAppend(Slice(h, move + 1), nextSquares)

\* NextScoreX counting every win for X
NextScoreXAnyWinner(score, w) == IF w # NoWinner THEN score + 1 ELSE score

\* handlePlay's score updates, w the result of calculateWinner(nextSquares)
NextScoreX(score, w) == IF w # NoWinner /\ w.player = "X" THEN score + 1 ELSE score

NextScoreO(score, w) == IF w # NoWinner /\ w.player # "X" THEN score + 1 ELSE score

\* NextMove pointing one past the last snapshot
NextMoveLength(nextHistory) == Length(nextHistory)

\* handlePlay's new currentMove
NextMove(nextHistory) == Length(nextHistory) - 1

handlePlay(nextSquares) ==
    LET nextHistory == NextHistory(history, currentMove, nextSquares)
        winner == calculateWinner(nextSquares, boardSize)
    IN  /\ last' = IF Length(history) > currentMove + 1 THEN "branched" ELSE "played"
        /\ history' = nextHistory
        /\ currentMove' = NextMove(nextHistory)
        /\ scoreX' = NextScoreX(scoreX, winner)
        /\ scoreO' = NextScoreO(scoreO, winner)

\* ClickIgnored without the test of the clicked cell
ClickIgnoredIfWon(squares, N, i) == calculateWinner(squares, N) # NoWinner

\* ClickIgnored without the test of winnerInfo
ClickIgnoredIfOccupied(squares, N, i) == Truthy(Get(squares, i))

\* handleClick's early return
ClickIgnored(squares, N, i) ==
    calculateWinner(squares, N) # NoWinner \/ Truthy(Get(squares, i))

\* NextSquares with the two marks exchanged
NextSquaresSwapped(squares, i, xNext) ==
    ArraySet(SliceAll(squares), i, IF xNext THEN "O" ELSE "X")

\* handleClick's nextSquares
NextSquares(squares, i, xNext) ==
    ArraySet(SliceAll(squares), i, IF xNext THEN "X" ELSE "O")

handleClick(i) ==
    /\ Rendered
    /\ UNCHANGED <<screen, boardSize>>
    /\ UNCHANGED evalVars
    /\ IF ClickIgnored(currentSquares, boardSize, i)
       THEN /\ last' = "ignored"
            /\ UNCHANGED core
       ELSE handlePlay(NextSquares(currentSquares, i, xIsNext))

\* jumpTo discarding the snapshots after move
jumpToTruncating(move) ==
    /\ Rendered
    /\ currentMove' = move
    /\ history' = Slice(history, move + 1)
    /\ last' = "jumpTo"
    /\ UNCHANGED <<screen, boardSize, scoreX, scoreO>>
    /\ UNCHANGED evalVars

jumpTo(move) ==
    /\ Rendered
    /\ currentMove' = move
    /\ last' = "jumpTo"
    /\ UNCHANGED <<screen, boardSize, history, scoreX, scoreO>>
    /\ UNCHANGED evalVars

\* restartGame resetting the scoreboard as well
restartGameClearingScores ==
    /\ Rendered
    /\ history' = ArrayFill(1, ArrayFill(boardSize * boardSize, Null))
    /\ currentMove' = 0
    /\ scoreX' = 0
    /\ scoreO' = 0
    /\ last' = "restartGame"
    /\ UNCHANGED <<screen, boardSize>>
    /\ UNCHANGED evalVars

restartGame ==
    /\ Rendered
    /\ history' = ArrayFill(1, ArrayFill(boardSize * boardSize, Null))
    /\ currentMove' = 0
    /\ last' = "restartGame"
    /\ UNCHANGED <<screen, boardSize, scoreX, scoreO>>
    /\ UNCHANGED evalVars

(***************************************************************************)
(* The program driven through its interface: Board offers a click on every *)
(* cell of the grid, Controls one jumpTo button per snapshot of history.   *)
(* The games explored are those within MaxDetours (MaxDetoursLarge on the  *)
(* 5x5 grid) moves of a principal line of play, up to MaxMoves moves and   *)
(* MaxScore wins; a click that changes nothing is explored everywhere.     *)
(***************************************************************************)
\* the principal line of play.  N = 3: the game 0,1,4,5,2,7,3,8,6, whose ninth
\* move completes two lines at once; N = 5: rows 0 and 1 interleaved, X
\* completing row 0 on the ninth move, then the rest row by row
PrincipalLine(N) ==
    IF N = 3 THEN <<0, 1, 4, 5, 2, 7, 3, 8, 6>>
    ELSE <<0, 5, 1, 6, 2, 7, 3, 8, 4, 9>> \o [k \in 1..15 |-> k + 9]

\* the move of the principal line on a board: its first empty cell (none on a
\* full board)
RECURSIVE PrincipalFrom(_, _, _)
PrincipalFrom(squares, line, p) ==
    IF p > Len(line) THEN {}
    ELSE IF Get(squares, line[p]) = Null THEN {line[p]}
    ELSE PrincipalFrom(squares, line, p + 1)

PrincipalLines == [N \in BoardSizes |-> PrincipalLine(N)]

PrincipalCells(squares, N) == PrincipalFrom(squares, PrincipalLines[N], 1)

\* the keys on which two consecutive snapshots differ
PlayedCells(a, b) == {c \in DOMAIN a \cup DOMAIN b : Get(a, c) # Get(b, c)}

\* how many of the moves 1..k of h left the principal line
Detours(h, k, N) ==
    Cardinality({j \in 1..k : PlayedCells(h[j - 1], h[j]) # PrincipalCells(h[j - 1], N)})

MaxDetoursOn(N) == IF N = 3 THEN MaxDetours ELSE MaxDetoursLarge

\* the detours a play on the active board may still add
DetoursLeft == MaxDetoursOn(boardSize) - Detours(history, currentMove, boardSize)

\* a play on cell i keeps the history within the detours explored, `left`
\* being DetoursLeft and `main` the principal move
WithinDetours(i, left, main) == i \in main \/ left >= 1

\* the bounds on a click: every click on a won board and every click that is
\* ignored is explored, a click that places a mark only within the bounds
WithinBounds(i, left, main, won) ==
    \/ won
    \/ /\ currentMove < MaxMoves
       /\ WithinDetours(i, left, main)
       /\ scoreX + scoreO < MaxScore
    \/ ClickIgnored(currentSquares, boardSize, i)

Click ==
    /\ Rendered
    /\ \E left \in {DetoursLeft} : \E main \in {PrincipalCells(currentSquares, boardSize)} :
       \E won \in {winnerInfo # NoWinner} :
          \E i \in Cells(boardSize) : WithinBounds(i, left, main, won) /\ handleClick(i)

Jump == Rendered /\ \E move \in Indices(history) : jumpTo(move)

Next ==
    \/ \E n \in BoardSizes : SetBoardSize(n)
    \/ handleStart
    \/ Click
    \/ Jump
    \/ restartGame

Spec == Init /\ [][Next]_vars

(***************************************************************************)
(* The handlers called directly, with any index: handleClick and jumpTo    *)
(* check no range themselves.                                              *)
(***************************************************************************)
DirectCells(N) == {-1, N * N}

DirectMoves(h) == {-1, Length(h), FarIndex}

DirectClick ==
    /\ Rendered
    /\ currentMove < MaxDirect
    /\ \E left \in {DetoursLeft} : \E main \in {PrincipalCells(currentSquares, boardSize)} :
          \E i \in Cells(boardSize) \cup DirectCells(boardSize) :
              /\ i \in DirectCells(boardSize) \/ WithinDetours(i, left, main)
                    \/ ClickIgnored(currentSquares, boardSize, i)
              /\ handleClick(i)

DirectJump == Rendered /\ \E move \in Indices(history) \cup DirectMoves(history) : jumpTo(move)

NextDirect ==
    \/ \E n \in BoardSizes : SetBoardSize(n)
    \/ handleStart
    \/ DirectClick
    \/ DirectJump
    \/ restartGame

SpecDirect == Init /\ [][NextDirect]_vars

(***************************************************************************)
(* A single game: the program driven through its interface from the menu, *)
(* started once and never restarted, so that the scoreboard counts the     *)
(* wins of that game alone.                                                *)
(***************************************************************************)
\* the bounds on a click of the single game
WithinGameBounds(i, left, main, won) ==
    \/ won
    \/ /\ currentMove < MaxMoves
       /\ WithinDetours(i, left, main)
       /\ scoreX + scoreO < MaxWins
    \/ ClickIgnored(currentSquares, boardSize, i)

GameClick ==
    /\ Rendered
    /\ \E left \in {DetoursLeft} : \E main \in {PrincipalCells(currentSquares, boardSize)} :
       \E won \in {winnerInfo # NoWinner} :
          \E i \in Cells(boardSize) : WithinGameBounds(i, left, main, won) /\ handleClick(i)

NextOneGame ==
    \/ \E n \in BoardSizes : SetBoardSize(n)
    \/ handleStart
    \/ GameClick
    \/ Jump

SpecOneGame == Init /\ [][NextOneGame]_vars

(***************************************************************************)
(* calculateWinner on its own, on every 3x3 board and on the 5x5 boards    *)
(* painted with a background mark and up to two lines.                     *)
(***************************************************************************)
Marks == {"X", "O"}

Boards3 == [Cells(3) -> Marks \cup {Null}]

Paint(bg, l1, p1, l2, p2) ==
    [k \in Cells(5) |->
        IF \E j \in 1..5 : l2[j] = k THEN p2
        ELSE IF \E j \in 1..5 : l1[j] = k THEN p1
        ELSE bg]

Boards5 ==
    {Paint(bg, WinningLines[5][a], p1, WinningLines[5][b], p2) :
        bg \in Marks \cup {Null}, a \in 1..12, p1 \in Marks \cup {Null},
        b \in 1..12, p2 \in Marks \cup {Null}}

InitEval ==
    /\ AppInit
    /\ evalN \in BoardSizes
    /\ evalSquares \in (IF evalN = 3 THEN Boards3 ELSE Boards5)
    /\ evalResult = Unevaluated

Evaluate ==
    /\ evalResult = Unevaluated
    /\ evalResult' = calculateWinner(evalSquares, evalN)
    /\ UNCHANGED <<evalSquares, evalN>>
    /\ UNCHANGED appVars

NextEval == Evaluate

SpecEval == InitEval /\ [][NextEval]_vars

(***************************************************************************)
(* The vocabulary of the properties: the candidate lines of an N x N grid  *)
(* as the specification enumerates them (rows 0..N-1, columns 0..N-1, the  *)
(* main diagonal, the anti-diagonal), complete lines, terminal boards and  *)
(* legal plays.                                                            *)
(***************************************************************************)
CandidateLine(N, k) ==
    IF k < N THEN [j \in 1..N |-> k * N + (j - 1)]
    ELSE IF k < 2 * N THEN [j \in 1..N |-> (j - 1) * N + (k - N)]
    ELSE IF k = 2 * N THEN [j \in 1..N |-> (j - 1) * N + (j - 1)]
    ELSE [j \in 1..N |-> (j - 1) * N + (N - j)]

LineOf(board, N, k, p) == \A j \in 1..N : board[CandidateLine(N, k)[j]] = p

Complete(board, N, p) == \E k \in 0..(2 * N + 1) : LineOf(board, N, k, p)

HasEmpty(board, N) == \E c \in Cells(N) : board[c] = Null

Terminal(board, N) ==
    Complete(board, N, "X") \/ Complete(board, N, "O") \/ ~HasEmpty(board, N)

EmptyBoard(N) == [c \in Cells(N) |-> Null]

ToMove(k) == IF k % 2 = 0 THEN "X" ELSE "O"

\* the active board is not terminal: a game in progress
InProgress == ~Terminal(currentSquares, boardSize)

\* a click on cell i of the active board that the rules accept, `open` being
\* InProgress
LegalPlay(i, open) ==
    /\ open
    /\ i \in Cells(boardSize)
    /\ currentSquares[i] = Null

\* the step is a call of handleClick (which records its outcome in last)
IsClick == last' \in {"ignored", "played", "branched"}

\* the latest handler call was a click that placed a mark
JustPlayed == last \in {"played", "branched"}

(***************************************************************************)
(* C1: a legal play made when currentMove = k, on a history of any length  *)
(* above k, leaves a history of length exactly k+2: snapshots 0..k are     *)
(* unchanged, every later snapshot is discarded, the new board (the active *)
(* board with the mover's mark in the clicked cell) is the last element,   *)
(* and currentMove becomes k+1.                                            *)
(***************************************************************************)
C1_PlayTruncatesThenAppends ==
    [][IsClick => \A open \in {InProgress} : \A i \in Cells(boardSize) :
        (LegalPlay(i, open) /\ handleClick(i)) =>
            /\ DOMAIN history' = 0..(currentMove + 1)
            /\ \A j \in 0..currentMove : history'[j] = history[j]
            /\ history'[currentMove + 1] =
                  [currentSquares EXCEPT ![i] = ToMove(currentMove)]
            /\ currentMove' = currentMove + 1]_vars

\* a play has just discarded at least one later snapshot
C1_Witness ==
    /\ last = "branched"
    /\ currentMove >= 1
    /\ Length(history) = currentMove + 1

(***************************************************************************)
(* C2: a click on a cell of the active board that is not empty, or on any  *)
(* cell when the active board is terminal (won, or full), changes neither  *)
(* history nor currentMove nor the scores.                                 *)
(***************************************************************************)
C2_IllegalPlayIsNoOp ==
    [][IsClick => \A open \in {InProgress} : \A i \in Cells(boardSize) :
        (~LegalPlay(i, open) /\ handleClick(i)) => UNCHANGED core]_vars

\* a click has just been ignored on a won board that still has empty cells
C2_Witness ==
    /\ last = "ignored"
    /\ Rendered
    /\ Complete(currentSquares, boardSize, "X") \/ Complete(currentSquares, boardSize, "O")
    /\ HasEmpty(currentSquares, boardSize)

(***************************************************************************)
(* C3: a click raises scoreX + scoreO by 0 or by 1; by 1 exactly when it   *)
(* is a legal play whose new board has a complete line, and then only the  *)
(* counter of the player holding that line moves; a play that fills the    *)
(* board without a line and an ignored click leave both counters alone.    *)
(***************************************************************************)
C3_ScoreMovesOnlyOnWin ==
    [][IsClick => \A open \in {InProgress} : \A i \in Cells(boardSize) :
        handleClick(i) =>
            LET won(p) == LegalPlay(i, open) /\ Complete(history'[currentMove'], boardSize, p)
            IN  /\ (scoreX' + scoreO') - (scoreX + scoreO) \in {0, 1}
                /\ (scoreX' + scoreO' = scoreX + scoreO + 1) <=> (won("X") \/ won("O"))
                /\ won("X") => (scoreX' = scoreX + 1 /\ scoreO' = scoreO)
                /\ won("O") => (scoreO' = scoreO + 1 /\ scoreX' = scoreX)
                /\ ~(won("X") \/ won("O")) => (scoreX' = scoreX /\ scoreO' = scoreO)]_vars

\* O has just completed a line and been counted
C3_Witness ==
    /\ JustPlayed
    /\ Complete(currentSquares, boardSize, "O")
    /\ scoreO >= 1

(***************************************************************************)
(* C4: jumpTo(move) with move an index of history sets currentMove to move *)
(* and changes neither history nor the scores, also when the position left *)
(* or entered is a won one.                                                *)
(***************************************************************************)
C4_JumpOnlyMovesPointer ==
    [][\A move \in Indices(history) :
        jumpTo(move) =>
            /\ currentMove' = move
            /\ history' = history
            /\ scoreX' = scoreX
            /\ scoreO' = scoreO]_vars

\* a jump has just entered a won position from which later snapshots exist
C4_Witness ==
    /\ last = "jumpTo"
    /\ Rendered
    /\ Complete(currentSquares, boardSize, "X")
    /\ scoreX >= 1
    /\ currentMove >= 5

(***************************************************************************)
(* C7: restartGame and handleStart leave a history of exactly one          *)
(* snapshot, the empty board of boardSize * boardSize cells, currentMove   *)
(* 0 and the scores as they were; no step of the program lowers a score.   *)
(***************************************************************************)
C7_RestartKeepsScores ==
    [][/\ (restartGame \/ handleStart) =>
            /\ DOMAIN history' = {0}
            /\ history'[0] = EmptyBoard(boardSize')
            /\ currentMove' = 0
            /\ scoreX' = scoreX
            /\ scoreO' = scoreO
       /\ scoreX' >= scoreX
       /\ scoreO' >= scoreO]_vars

\* a restart has just happened with a win on the scoreboard
C7_Witness ==
    /\ last = "restartGame"
    /\ scoreX + scoreO >= 1
    /\ history = ArrayFill(1, EmptyBoard(boardSize))
    /\ currentMove = 0

(***************************************************************************)
(* C5: jumpTo(move) with move outside 0..length(history)-1 (for instance   *)
(* jumpTo(10) on a history of length 3) is rejected and leaves             *)
(* currentMove, history and the scores unchanged.                          *)
(***************************************************************************)
C5_OutOfRangeJumpLeavesState ==
    [][\A move \in DirectMoves(history) :
        (move \notin Indices(history) /\ jumpTo(move)) => UNCHANGED core]_vars

(***************************************************************************)
(* C6: handleClick(i) with i outside 0..N*N-1 leaves the state unchanged:  *)
(* no snapshot is appended, every board keeps N*N cells, currentMove and   *)
(* the scores keep their values.                                           *)
(***************************************************************************)
C6_OutOfRangeClickLeavesState ==
    [][IsClick => \A i \in DirectCells(boardSize) :
        (i \notin Cells(boardSize) /\ handleClick(i)) =>
            /\ UNCHANGED core
            /\ \A k \in Indices(history') :
                  Length(history'[k]) = boardSize * boardSize]_vars

(***************************************************************************)
(* C8: the status of the active board is Winner p iff some candidate line  *)
(* is entirely p, Draw iff no line is complete and no cell is empty, and   *)
(* otherwise Next with the player currentMove's parity gives.  On the 3x3  *)
(* board the moves 0,4,1,5,2 give Winner X with the line 0,1,2.            *)
(***************************************************************************)
ScenarioMoves == <<0, 4, 1, 5, 2>>

\* the 3x3 board after the first n moves of ScenarioMoves, X moving first
ScenarioBoard(n) ==
    [c \in Cells(3) |->
        IF \E j \in 1..n : ScenarioMoves[j] = c
        THEN ToMove((CHOOSE j \in 1..n : ScenarioMoves[j] = c) - 1)
        ELSE Null]

ScenarioPlayed ==
    /\ Rendered
    /\ boardSize = 3
    /\ currentMove = Len(ScenarioMoves)
    /\ history = [k \in 0..Len(ScenarioMoves) |-> ScenarioBoard(k)]

C8_StatusMatchesBoard ==
    Rendered =>
        /\ \A p \in Marks :
              (status = <<"Winner", p>>) <=> Complete(currentSquares, boardSize, p)
        /\ (status = <<"Draw!">>) <=>
              /\ ~Complete(currentSquares, boardSize, "X")
              /\ ~Complete(currentSquares, boardSize, "O")
              /\ ~HasEmpty(currentSquares, boardSize)
        /\ ~Terminal(currentSquares, boardSize) =>
              status = <<"Next", ToMove(currentMove)>>
        /\ ScenarioPlayed =>
              /\ status = <<"Winner", "X">>
              /\ winnerInfo.line = <<0, 1, 2>>

\* the scenario's five moves have been played
C8_Witness == ScenarioPlayed /\ last = "played"

(***************************************************************************)
(* C9: the mark a legal play places is X when currentMove is even and O    *)
(* when it is odd; so a play that follows a play places the other mark     *)
(* than that one did, and the play that follows jumpTo(k) places X iff k   *)
(* is even.                                                                *)
(***************************************************************************)
\* the mark that snapshot k of h adds to snapshot k-1
MarkPlaced(h, k) ==
    h[k][CHOOSE c \in DOMAIN h[k] : h[k][c] # h[k - 1][c]]

C9_MarksFollowParity ==
    [][IsClick => \A open \in {InProgress} : \A i \in Cells(boardSize) :
        (LegalPlay(i, open) /\ handleClick(i)) =>
            /\ history'[currentMove'][i] = ToMove(currentMove)
            /\ JustPlayed =>
                  history'[currentMove'][i] # MarkPlaced(history, currentMove)
            /\ last = "jumpTo" =>
                  (history'[currentMove'][i] = "X" <=> currentMove % 2 = 0)]_vars

\* a play made after jumping back to an odd move has just placed O
C9_Witness ==
    /\ last = "branched"
    /\ currentMove >= 2
    /\ currentMove % 2 = 0
    /\ MarkPlaced(history, currentMove) = "O"

(***************************************************************************)
(* C10: calculateWinner returns null when no candidate line is uniformly   *)
(* marked, and otherwise the first complete line in the order rows, then   *)
(* columns, then main diagonal, then anti-diagonal, with that line's mark  *)
(* and its indices in generation order, also when several lines are        *)
(* complete at once.                                                       *)
(***************************************************************************)
CompleteLines(board, N) ==
    {k \in 0..(2 * N + 1) : LineOf(board, N, k, "X") \/ LineOf(board, N, k, "O")}

FirstOf(ks) == CHOOSE k \in ks : \A m \in ks : k <= m

C10_FirstCompleteLine ==
    evalResult # Unevaluated =>
        IF CompleteLines(evalSquares, evalN) = {}
        THEN evalResult = NoWinner
        ELSE LET line == CandidateLine(evalN, FirstOf(CompleteLines(evalSquares, evalN)))
             IN  evalResult = [player |-> evalSquares[line[1]], line |-> line]

\* evaluated: a 5x5 board with row 1 all O and row 3 all X, O's row returned
C10_Witness ==
    /\ evalResult # Unevaluated
    /\ evalN = 5
    /\ LineOf(evalSquares, 5, 1, "O")
    /\ LineOf(evalSquares, 5, 3, "X")
    /\ evalResult.player = "O"
    /\ evalResult.line = <<5, 6, 7, 8, 9>>

(***************************************************************************)
(* C11: for N in {3, 5}, generateWinningLines(N) yields exactly 2N+2       *)
(* lines, each of exactly N indices, every index in 0..N*N-1, and the      *)
(* lines are the N rows {r*N+c : c < N}, the N columns {r*N+c : r < N},    *)
(* the main diagonal {i*N+i} and the anti-diagonal {i*N+(N-1-i)}.          *)
(* Checked on the lines every evaluated call of calculateWinner scans.     *)
(***************************************************************************)
RowSet(N, r) == {r * N + c : c \in 0..(N - 1)}

ColSet(N, c) == {r * N + c : r \in 0..(N - 1)}

MainDiagSet(N) == {i * N + i : i \in 0..(N - 1)}

AntiDiagSet(N) == {i * N + (N - 1 - i) : i \in 0..(N - 1)}

ExpectedLineSets(N) ==
    {RowSet(N, r) : r \in 0..(N - 1)} \cup {ColSet(N, c) : c \in 0..(N - 1)}
        \cup {MainDiagSet(N), AntiDiagSet(N)}

IndexSet(line) == {line[j] : j \in DOMAIN line}

C11_LinesAreRowsColumnsDiagonals ==
    evalResult # Unevaluated =>
        LET lines == generateWinningLines(evalN)
        IN  /\ evalN \in {3, 5}
            /\ Len(lines) = 2 * evalN + 2
            /\ \A k \in 1..Len(lines) :
                  /\ Len(lines[k]) = evalN
                  /\ Cardinality(IndexSet(lines[k])) = evalN
                  /\ IndexSet(lines[k]) \subseteq 0..(evalN * evalN - 1)
            /\ {IndexSet(lines[k]) : k \in 1..Len(lines)} = ExpectedLineSets(evalN)
            /\ Cardinality(ExpectedLineSets(evalN)) = 2 * evalN + 2

\* evaluated: a 5x5 board whose only complete line is the anti-diagonal, the
\* twelfth and last line generated
C11_Witness ==
    /\ evalResult # Unevaluated
    /\ evalN = 5
    /\ evalResult.player \in Marks
    /\ IndexSet(evalResult.line) = AntiDiagSet(5)
    /\ evalResult.line = generateWinningLines(5)[12]

(***************************************************************************)
(* C12: in every reachable state history[0] is the empty board, and every  *)
(* snapshot history[i+1] differs from history[i] in at most one cell, a    *)
(* cell that is empty in history[i] and holds a player's mark in           *)
(* history[i+1].  Plays made after a jumpTo, which overwrite a branch, and *)
(* restartGame preserve this.                                              *)
(***************************************************************************)
ChangedCells(a, b) == {c \in DOMAIN a \cup DOMAIN b : Get(a, c) # Get(b, c)}

AllEmpty(board) == \A c \in DOMAIN board : board[c] = Null

C12_HistoryIsOneMoveAtATime ==
    /\ 0 \in DOMAIN history
    /\ AllEmpty(history[0])
    /\ screen = "game" => history[0] = EmptyBoard(boardSize)
    /\ \A i \in DOMAIN history : (i + 1) \in DOMAIN history =>
          /\ DOMAIN history[i + 1] = DOMAIN history[i]
          /\ Cardinality(ChangedCells(history[i], history[i + 1])) <= 1
          /\ \A c \in ChangedCells(history[i], history[i + 1]) :
                /\ history[i][c] = Null
                /\ history[i + 1][c] \in Marks

\* a play has just overwritten a branch, on a history of four snapshots or more
C12_Witness ==
    /\ last = "branched"
    /\ currentMove >= 3
    /\ Cardinality(ChangedCells(history[currentMove - 1], history[currentMove])) = 1

(***************************************************************************)
(* C13: in every state reached by any sequence of handleStart, plays,      *)
(* jumpTo and restartGame calls, 0 <= currentMove < length(history), so    *)
(* the active board history[currentMove] always exists.                    *)
(***************************************************************************)
C13_CurrentMoveInsideHistory ==
    /\ 0 <= currentMove
    /\ currentMove < Length(history)
    /\ HasCurrent

\* a play has just moved the pointer to a new last snapshot, after a jump back
\* had left it on an earlier one
C13_Witness ==
    /\ last = "branched"
    /\ currentMove = Length(history) - 1
    /\ currentMove >= 2

(***************************************************************************)
(* C14, as stated: on every board reached by legal plays, with any         *)
(* interleaving of jumpTo and restartGame, at most one of the 2N+2         *)
(* candidate lines is uniformly marked with a player's mark.               *)
(***************************************************************************)
C14_AtMostOneCompleteLine ==
    screen = "game" =>
        \A k \in DOMAIN history :
            Cardinality(CompleteLines(history[k], boardSize)) <= 1

(***************************************************************************)
(* C14, amended: on every board reached by legal plays, every uniformly    *)
(* marked candidate line carries the mark of the player who moved last and *)
(* passes through the cell that move marked; so at most one player has a   *)
(* complete line at a time, while one move may complete several lines at   *)
(* once.                                                                   *)
(***************************************************************************)
CellsOfLine(N, k) == IndexSet(CandidateLine(N, k))

C14_CompleteLinesShareLastMove ==
    screen = "game" =>
        \A k \in DOMAIN history :
            \A n \in CompleteLines(history[k], boardSize) :
                /\ k >= 1
                /\ ChangedCells(history[k - 1], history[k]) \subseteq CellsOfLine(boardSize, n)
                /\ LineOf(history[k], boardSize, n, ToMove(k - 1))

\* the ninth move of a 3x3 game has just completed two lines at once
C14_Witness ==
    /\ JustPlayed
    /\ boardSize = 3
    /\ currentMove = 9
    /\ Cardinality(CompleteLines(currentSquares, 3)) = 2

(***************************************************************************)
(* C15: the score is updated exactly once per completed win: within one    *)
(* game, the span between two consecutive handleStart/restartGame calls,   *)
(* scoreX + scoreO increases by at most 1 in total, however plays and      *)
(* jumpTo calls are interleaved (for instance winning, jumping back one    *)
(* move and playing the winning move again).  In a game started from the   *)
(* menu and never restarted both counters start at 0, so their sum is the  *)
(* increase.                                                               *)
(***************************************************************************)
C15_AtMostOneWinPerGame == scoreX + scoreO <= 1

(***************************************************************************)
(* C16: only the last snapshot of history can be terminal: in every        *)
(* reachable state every history[i] with i < length(history) - 1 has no    *)
(* complete line and at least one empty cell, so the status shown after    *)
(* jumpTo(i) is "Next player", and a click there on any empty cell is      *)
(* accepted.                                                               *)
(***************************************************************************)
C16_OnlyLastSnapshotTerminal ==
    screen = "game" =>
        \A i \in DOMAIN history : i < Length(history) - 1 =>
            /\ ~Complete(history[i], boardSize, "X")
            /\ ~Complete(history[i], boardSize, "O")
            /\ HasEmpty(history[i], boardSize)
            /\ StatusOf(history[i], boardSize, i % 2 = 0) = <<"Next", ToMove(i)>>
            /\ \A c \in Cells(boardSize) :
                  history[i][c] = Null => ~ClickIgnored(history[i], boardSize, c)

\* a jumpTo has just left a finished game for one of its earlier snapshots
C16_Witness ==
    /\ last = "jumpTo"
    /\ currentMove < Length(history) - 1
    /\ Terminal(history[Length(history) - 1], boardSize)
    /\ status = <<"Next", ToMove(currentMove)>>

(***************************************************************************)
(* C17: in every reachable state, for every index k of history, the        *)
(* snapshot history[k] holds exactly k marks, ceil(k/2) of them X and      *)
(* floor(k/2) of them O; hence length(history) <= N*N + 1 and              *)
(* currentMove <= N*N, and the next player derived from the parity of      *)
(* currentMove is the one the marks on the active board call for, after    *)
(* any interleaving of jumpTo, plays and restartGame.                      *)
(***************************************************************************)
CountOf(board, p) == Cardinality({c \in DOMAIN board : board[c] = p})

C17_SnapshotHoldsItsIndexInMarks ==
    /\ \A k \in DOMAIN history :
          /\ CountOf(history[k], "X") = (k + 1) \div 2
          /\ CountOf(history[k], "O") = k \div 2
          /\ CountOf(history[k], "X") + CountOf(history[k], "O") = k
          /\ CountOf(history[k], Null) = Cardinality(DOMAIN history[k]) - k
    /\ screen = "game" =>
          /\ Length(history) <= boardSize * boardSize + 1
          /\ currentMove <= boardSize * boardSize
          /\ xIsNext <=> CountOf(currentSquares, "X") = CountOf(currentSquares, "O")

\* a play has just overwritten a branch with O's mark, after a jump back
C17_Witness ==
    /\ last = "branched"
    /\ currentMove >= 2
    /\ currentMove % 2 = 0
    /\ CountOf(currentSquares, "O") = currentMove \div 2
    /\ xIsNext

(***************************************************************************)
(* C18: in every reachable state no snapshot of history has complete lines *)
(* for both players, and a snapshot history[k] with a winner was won by    *)
(* the player who made move k (X iff k is odd); so every increment of      *)
(* scoreX happens on a play that moves currentMove to an odd index, and    *)
(* every increment of scoreO on a play that moves it to an even index.     *)
(***************************************************************************)
WinnerIsMover ==
    screen = "game" =>
        \A k \in DOMAIN history :
            /\ ~(Complete(history[k], boardSize, "X") /\ Complete(history[k], boardSize, "O"))
            /\ Complete(history[k], boardSize, "X") => k % 2 = 1
            /\ Complete(history[k], boardSize, "O") => (k % 2 = 0 /\ k >= 2)
            /\ calculateWinner(history[k], boardSize) # NoWinner =>
                  calculateWinner(history[k], boardSize).player = ToMove(k - 1)

ScoreFollowsParity ==
    /\ scoreX' # scoreX =>
          /\ IsClick
          /\ last' # "ignored"
          /\ scoreX' = scoreX + 1
          /\ currentMove' % 2 = 1
    /\ scoreO' # scoreO =>
          /\ IsClick
          /\ last' # "ignored"
          /\ scoreO' = scoreO + 1
          /\ currentMove' % 2 = 0

C18_WinnerMadeTheLastMove == []WinnerIsMover /\ [][ScoreFollowsParity]_vars

\* O has just won, on a play that moved currentMove to an even index
C18_Witness ==
    /\ JustPlayed
    /\ Complete(currentSquares, boardSize, "O")
    /\ currentMove % 2 = 0
    /\ scoreO = 1

(***************************************************************************)
(* C19: every game terminates under forward play: from any reachable state *)
(* with currentMove = k, if only plays on empty cells are made (no jumpTo, *)
(* no restartGame), the active board becomes terminal, won or drawn, after *)
(* at most N*N - k such plays, and from then on every play is a no-op      *)
(* until a jumpTo or a restartGame.  Stated with N*N - currentMove as the  *)
(* measure: it is the number of empty cells of the active board, a board   *)
(* where it is 0 is terminal, a play on an empty cell of a board that is   *)
(* not terminal is accepted and lowers it by exactly one, and a click on a *)
(* terminal board changes nothing.                                         *)
(***************************************************************************)
RemainingPlays == boardSize * boardSize - currentMove

MeasureIsEmptyCells ==
    Rendered =>
        /\ RemainingPlays >= 0
        /\ CountOf(currentSquares, Null) = RemainingPlays
        /\ RemainingPlays = 0 => Terminal(currentSquares, boardSize)

PlayLowersMeasure ==
    IsClick => \A open \in {InProgress} : \A i \in Cells(boardSize) :
        handleClick(i) =>
            IF ~open
            THEN UNCHANGED core
            ELSE currentSquares[i] = Null =>
                    /\ currentMove' = currentMove + 1
                    /\ RemainingPlays' = RemainingPlays - 1
                    /\ currentSquares'[i] \in Marks

C19_ForwardPlayTerminates == []MeasureIsEmptyCells /\ [][PlayLowersMeasure]_vars

\* a click has just been ignored on the drawn board that ends a 3x3 game of
\* nine plays
C19_Witness ==
    /\ last = "ignored"
    /\ boardSize = 3
    /\ currentMove = 9
    /\ RemainingPlays = 0
    /\ status = <<"Draw!">>

====
